---- MODULE Spec2Model ----
(***************************************************************************)
(* RunLights: the tray IPC server (src/src/runlights/tray.py), the binding *)
(* resolver (src/src/runlights/config.py) and the colour conversion        *)
(* (src/src/runlights/wled.py).                                            *)
(*                                                                         *)
(* Bytes on the pipe are sequences of lexical tokens, text values of the   *)
(* configuration are sequences of characters, and a message built by an    *)
(* f-string is the sequence of its pieces.                                 *)
(***************************************************************************)
EXTENDS Integers, Sequences, FiniteSets, TLC

\* ------------------------------------------------------------------ bounds
\* largest number of receive operations one request is split over
MaxChunks == 2

\* ------------------------------------------------------- python primitives
\* d.get(k, default) on a dict
Get(d, k, default) == IF k \in DOMAIN d THEN d[k] ELSE default

\* x in list
InList(x, list) == \E i \in 1..Len(list) : list[i] = x

RECURSIVE Join(_)
\* b"".join(chunks)
Join(chunks) == IF chunks = <<>> THEN <<>> ELSE Head(chunks) \o Join(Tail(chunks))

\* the value None where a text or a message is expected: the empty sequence
NoErr == <<>>

\* ---------------------------------------------------------------- numbers
DecChars == <<"0", "1", "2", "3", "4", "5", "6", "7", "8", "9">>
HexChars == DecChars \o <<"A", "B", "C", "D", "E", "F">>

IsDec(ch) == InList(ch, DecChars)
IsHex(ch) == InList(ch, HexChars)
DecVal(ch) == (CHOOSE i \in 1..Len(DecChars) : DecChars[i] = ch) - 1
HexVal(ch) == (CHOOSE i \in 1..Len(HexChars) : HexChars[i] = ch) - 1

RECURSIVE DecNumber(_)
\* value of a non-empty sequence of decimal digits
DecNumber(s) == IF Len(s) = 1 THEN DecVal(s[1])
                ELSE 10 * DecNumber(SubSeq(s, 1, Len(s) - 1)) + DecVal(s[Len(s)])

\* a TOML integer n and a TOML string s, as the values of a key
I(n) == [t |-> "int", v |-> n]
S(s) == [t |-> "str", s |-> s]

\* int(x) succeeds: x is an integer, or a string of decimal digits
CanInt(x) == \/ x.t = "int"
             \/ x.t = "str" /\ x.s # <<>> /\ \A i \in 1..Len(x.s) : IsDec(x.s[i])
\* int(x)
ToInt(x) == IF x.t = "int" THEN x.v ELSE DecNumber(x.s)

\* ------------------------------------------------------------ hex colours
RECURSIVE LStripHash(_)
\* hex_color.lstrip("#")
LStripHash(s) == IF s # <<>> /\ Head(s) = "#" THEN LStripHash(Tail(s)) ELSE s

\* the six digits _hex_to_rgb converts: a 3-digit colour has each digit doubled
HexDigits(hex_color) ==
    LET h == LStripHash(hex_color)
    IN  IF Len(h) = 3 THEN <<h[1], h[1], h[2], h[2], h[3], h[3]>> ELSE h

\* _hex_to_rgb returns, i.e. raises no ValueError
HexOk(hex_color) ==
    LET h == LStripHash(hex_color)
    IN  /\ Len(h) \in {6, 3}
        /\ \A i \in 1..Len(h) : IsHex(h[i])

\* _hex_to_rgb(hex_color), for a colour it accepts
_hex_to_rgb(hex_color) ==
    LET d == HexDigits(hex_color)
    IN  <<16 * HexVal(d[1]) + HexVal(d[2]),
          16 * HexVal(d[3]) + HexVal(d[4]),
          16 * HexVal(d[5]) + HexVal(d[6])>>

\* ------------------------------------------------------------------- JSON
\* the members a request object can carry, token -> (key, value)
JsonMembers ==
    [tok \in {"type=console", "type=led", "name=snes", "name=gba", "name=SNES", "name=",
              "name=longname"} |->
        CASE tok = "type=console" -> [key |-> "type", val |-> "console"]
          [] tok = "type=led"     -> [key |-> "type", val |-> "led"]
          [] tok = "name=snes"    -> [key |-> "name", val |-> "snes"]
          [] tok = "name=gba"     -> [key |-> "name", val |-> "gba"]
          [] tok = "name=SNES"    -> [key |-> "name", val |-> "SNES"]
          [] tok = "name="        -> [key |-> "name", val |-> ""]
          [] tok = "name=longname" -> [key |-> "name", val |-> "longname"]]

RECURSIVE StripLeft(_)
StripLeft(s) == IF s # <<>> /\ Head(s) = "NL" THEN StripLeft(Tail(s)) ELSE s
RECURSIVE StripRight(_)
StripRight(s) == IF s # <<>> /\ s[Len(s)] = "NL" THEN StripRight(SubSeq(s, 1, Len(s) - 1)) ELSE s
\* surrounding whitespace is not part of the JSON document
Strip(s) == StripRight(StripLeft(s))

\* the text is a JSON object: { members }
IsObjectText(b) ==
    /\ Len(b) >= 2
    /\ b[1] = "{"
    /\ b[Len(b)] = "}"
    /\ \A i \in 2..(Len(b) - 1) : b[i] \in DOMAIN JsonMembers

\* the text is a JSON document that is not an object (an array)
IsArrayText(b) == b = <<"[]">>

\* json.loads(raw.decode("utf-8")): kind "error" when it raises, "array" for a
\* document that is not an object, "object" with the dict otherwise (a repeated
\* key keeps its last value)
json_loads(raw) ==
    LET b == Strip(raw)
    IN  IF IsArrayText(b) THEN [kind |-> "array", obj |-> <<>>]
        ELSE IF IsObjectText(b)
             THEN LET idx  == 2..(Len(b) - 1)
                      keys == {JsonMembers[b[i]].key : i \in idx}
                      last(k) == CHOOSE i \in idx :
                                    /\ JsonMembers[b[i]].key = k
                                    /\ \A j \in idx : JsonMembers[b[j]].key = k => j <= i
                  IN  [kind |-> "object", obj |-> [k \in keys |-> JsonMembers[b[last(k)]].val]]
             ELSE [kind |-> "error", obj |-> <<>>]

\* json.dumps(payload).encode("utf-8") + b"\n"
Encode(payload) == <<"{", payload, "}", "NL">>

\* ---------------------------------------------------------- configuration
RED    == <<"#", "F", "F", "0", "0", "0", "0">>
BLACK  == <<"#", "0", "0", "0", "0", "0", "0">>
BLUE3  == <<"#", "0", "0", "F">>
BADHEX == <<"#", "G", "G", "0", "0", "0", "0">>

\* a binding table entry that is a TOML table
B(c, s) == [t |-> "table", controller |-> c, segment |-> s]
\* find_esde_binding's None
None == [t |-> "none"]

Segs(ids) == [i \in 1..Len(ids) |-> [id |-> ids[i]]]
Ctrl(id, host, port, ids) == [id |-> id, host |-> host, port |-> port, segments |-> Segs(ids)]

\* the configuration of the specification's end-to-end example
CfgExample ==
    [application |-> <<
        [id |-> "esde", modes |-> <<
            [id |-> "game-select",
             acolor |-> RED, abrightness |-> I(255),
             bcolor |-> BLACK, bbrightness |-> I(0),
             bindings |-> [snes |-> B("livingroom", 2)]] >>] >>,
     controllers |-> << Ctrl("livingroom", "10.0.0.5", I(80), <<0, 1, 2>>) >>]

\* three controllers, all eligible; a brightness and a port given as text
CfgThree ==
    [application |-> <<
        [id |-> "esde", modes |-> <<
            [id |-> "game-select",
             acolor |-> RED, abrightness |-> S(<<"1", "2", "8">>),
             bcolor |-> BLUE3, bbrightness |-> I(10),
             transition_ms |-> 300,
             bindings |-> [snes |-> B("b", 1), gba |-> B("c", 0)]] >>] >>,
     controllers |-> << Ctrl("a", "10.0.0.1", I(80), <<0, 1>>),
                        Ctrl("b", "10.0.0.2", S(<<"8", "0", "8", "0">>), <<0, 1>>),
                        Ctrl("c", "10.0.0.3", I(80), <<0>>) >>]

\* an allow-list that excludes controller b, a controller without segments,
\* a binding to a segment that does not exist, a negative base brightness,
\* no base colour
CfgFilter ==
    [default_transition_ms |-> 500,
     application |-> <<
        [id |-> "esde", modes |-> <<
            [id |-> "game-select",
             controllers |-> <<"a", "c">>,
             abrightness |-> I(200), bbrightness |-> I(-1),
             acolor |-> BLUE3,
             bindings |-> [snes |-> B("b", 0), gba |-> B("a", 1), SNES |-> B("a", 7)]] >>] >>,
     controllers |-> << Ctrl("a", "10.0.0.1", I(80), <<0, 1>>),
                        Ctrl("b", "10.0.0.2", I(80), <<0>>),
                        Ctrl("c", "10.0.0.3", I(80), <<>>) >>]

\* bindings under another application, under another mode, and a second
\* esde/game-select mode after the first
CfgScopes ==
    [application |-> <<
        [id |-> "retro", modes |-> <<
            [id |-> "game-select", abrightness |-> I(9),
             bindings |-> [gba |-> B("a", 0)]] >>],
        [id |-> "esde", modes |-> <<
            [id |-> "idle", abrightness |-> I(9),
             bindings |-> [gba |-> B("a", 1)]],
            [id |-> "game-select",
             acolor |-> BLUE3, abrightness |-> I(255), bcolor |-> RED,
             bindings |-> [snes |-> B("a", 0)]],
            [id |-> "game-select",
             acolor |-> RED, abrightness |-> I(7),
             bindings |-> [snes |-> B("a", 1), gba |-> B("a", 1)]] >>] >>,
     controllers |-> << Ctrl("a", "10.0.0.1", I(80), <<0, 1>>) >>]

\* no application "esde"
CfgNoApp ==
    [application |-> <<
        [id |-> "retro", modes |-> <<
            [id |-> "game-select", bindings |-> [snes |-> B("a", 0)]] >>] >>,
     controllers |-> << Ctrl("a", "10.0.0.1", I(80), <<0>>) >>]

\* application "esde" without a mode "game-select"
CfgNoMode ==
    [application |-> <<
        [id |-> "esde", modes |-> <<
            [id |-> "idle", bindings |-> [snes |-> B("a", 0)]] >>] >>,
     controllers |-> << Ctrl("a", "10.0.0.1", I(80), <<0>>) >>]

\* a brightness that is not a number
CfgBadBri ==
    [application |-> <<
        [id |-> "esde", modes |-> <<
            [id |-> "game-select",
             acolor |-> RED, abrightness |-> S(<<"h", "i">>),
             bindings |-> [snes |-> B("a", 0)]] >>] >>,
     controllers |-> << Ctrl("a", "10.0.0.1", I(80), <<0>>) >>]

\* a base colour that is not a hex colour
CfgBadHex ==
    [application |-> <<
        [id |-> "esde", modes |-> <<
            [id |-> "game-select",
             acolor |-> RED, abrightness |-> I(255), bcolor |-> BADHEX,
             bindings |-> [snes |-> B("b", 0)]] >>] >>,
     controllers |-> << Ctrl("a", "10.0.0.1", I(80), <<0>>),
                        Ctrl("b", "10.0.0.2", I(80), <<0, 1>>) >>]

\* a controller port that is not a number
CfgBadPort ==
    [application |-> <<
        [id |-> "esde", modes |-> <<
            [id |-> "game-select",
             acolor |-> RED, abrightness |-> I(255),
             bindings |-> [snes |-> B("a", 0)]] >>] >>,
     controllers |-> << Ctrl("a", "10.0.0.1", I(80), <<0>>),
                        Ctrl("b", "10.0.0.2", S(<<"A", "B">>), <<0>>) >>]

\* a binding that is a string, and a binding table without a segment
CfgBadBindings ==
    [application |-> <<
        [id |-> "esde", modes |-> <<
            [id |-> "game-select",
             acolor |-> RED, abrightness |-> I(255),
             bindings |-> [snes |-> S(<<"a">>),
                           gba  |-> [t |-> "table", controller |-> "a"]]] >>] >>,
     controllers |-> << Ctrl("a", "10.0.0.1", I(80), <<0>>) >>]

\* a console name of more than 4096 bytes
LongName == "longname"

\* a binding for the long console name
CfgLongName ==
    [application |-> <<
        [id |-> "esde", modes |-> <<
            [id |-> "game-select",
             acolor |-> RED, abrightness |-> I(255),
             bindings |-> [snes |-> B("a", 0), longname |-> B("a", 1)]] >>] >>,
     controllers |-> << Ctrl("a", "10.0.0.1", I(80), <<0, 1>>) >>]

\* the parsed contents the configuration file can have
Configs == <<CfgExample, CfgThree, CfgFilter, CfgScopes, CfgNoApp, CfgNoMode,
             CfgBadBri, CfgBadHex, CfgBadPort, CfgBadBindings, CfgLongName>>

\* the states of the file at config_path: absent, not TOML, or one of Configs
Missing == <<"missing", 0>>
Garbled == <<"garbled", 0>>
FileStates == {Missing, Garbled} \cup {<<"toml", i>> : i \in 1..Len(Configs)}
\* no file content was looked at
Unread == <<"unread", 0>>

\* load_config(path): the ConfigError message, or the parsed content
load_config(file) ==
    IF file = Missing
    THEN [ok |-> FALSE, error |-> <<"Config file not found: ", "config.toml">>, raw |-> <<>>]
    ELSE IF file = Garbled
         THEN [ok |-> FALSE, error |-> <<"Failed to parse config: ", "Invalid statement">>, raw |-> <<>>]
         ELSE [ok |-> TRUE, error |-> NoErr, raw |-> Configs[file[2]]]

\* --------------------------------------------------------------- resolver
FindInModes_anyMode(modes, console_name) ==
    IF modes = <<>> THEN [returned |-> FALSE, value |-> None]
    ELSE [returned |-> TRUE,
          value |-> Get(Get(Head(modes), "bindings", <<>>), console_name, None)]
RECURSIVE FindInModes(_, _)
\* the inner loop of find_esde_binding over one application's modes: the first
\* mode "game-select" ends the search with bindings.get(console_name)
FindInModes(modes, console_name) ==
    IF modes = <<>> THEN [returned |-> FALSE, value |-> None]
    ELSE LET mode == Head(modes)
         IN  IF Get(mode, "id", "") # "game-select"
             THEN FindInModes(Tail(modes), console_name)
             ELSE [returned |-> TRUE,
                   value |-> Get(Get(mode, "bindings", <<>>), console_name, None)]

RECURSIVE FindInApps(_, _)
\* the outer loop of find_esde_binding over the applications
FindInApps(apps, console_name) ==
    IF apps = <<>> THEN None
    ELSE LET app == Head(apps)
         IN  IF Get(app, "id", "") # "esde"
             THEN FindInApps(Tail(apps), console_name)
             ELSE LET r == FindInModes(Get(app, "modes", <<>>), console_name)
                  IN  IF r.returned THEN r.value
                      ELSE FindInApps(Tail(apps), console_name)

\* Config.find_esde_binding(console_name)
find_esde_binding(raw, console_name) ==
    FindInApps(Get(raw, "application", <<>>), console_name)

\* ---------------------------------------------------------------- planner
\* transition_ms is None
NoTransition == -1

RECURSIVE SelectModes(_)
SelectModes(modes) ==
    IF modes = <<>> THEN <<>>
    ELSE (IF Get(Head(modes), "id", "") = "game-select" THEN <<Head(modes)>> ELSE <<>>)
         \o SelectModes(Tail(modes))

EsdeModes_anyApp(apps) ==
    IF apps = <<>> THEN <<>>
    ELSE SelectModes(Get(apps[1], "modes", <<>>))
         \o (IF Len(apps) > 1 THEN SelectModes(Get(apps[2], "modes", <<>>)) ELSE <<>>)
RECURSIVE EsdeModes(_)
\* the generator of _apply_segmentsolid: the modes "game-select" of the
\* applications "esde", in document order
EsdeModes(apps) ==
    IF apps = <<>> THEN <<>>
    ELSE (IF Get(Head(apps), "id", "") = "esde"
          THEN SelectModes(Get(Head(apps), "modes", <<>>)) ELSE <<>>)
         \o EsdeModes(Tail(apps))

\* is_target
IsTarget(cid, seg_id, target_controller, target_segment) ==
    cid = target_controller /\ seg_id = target_segment

SegColor_swapped(is_target, acolor, bcolor) == IF is_target THEN bcolor ELSE acolor
\* seg_color
SegColor(is_target, acolor, bcolor) == IF is_target THEN acolor ELSE bcolor

\* seg_bri
SegBri(is_target, abri, bbri) == IF is_target THEN abri ELSE bbri

SegOn_nonzero(seg_bri) == seg_bri # 0
\* seg_on
SegOn(seg_bri) == seg_bri > 0

\* the WLEDPayload appended for one segment
SegUpdate(cid, seg, st) ==
    LET seg_id    == seg.id
        is_target == IsTarget(cid, seg_id, st.target_controller, st.target_segment)
        seg_bri   == SegBri(is_target, st.abri, st.bbri)
    IN  [on         |-> SegOn(seg_bri),
         brightness |-> seg_bri,
         color      |-> _hex_to_rgb(SegColor(is_target, st.acolor, st.bcolor)),
         segment    |-> seg_id]

\* wled._hex_to_rgb raises while the updates of one controller are built
SegmentsRaise(cid, segments, st) ==
    \E i \in 1..Len(segments) :
        ~HexOk(SegColor(IsTarget(cid, segments[i].id, st.target_controller, st.target_segment),
                        st.acolor, st.bcolor))

\* wled.send_batch(controller, seg_updates, transition_ms) for the controller
\* at position i of the inventory: it raises for the controllers of failing
send_batch(i, failing) ==
    IF i \in failing THEN [ok |-> FALSE, exc |-> "WLED request failed"]
                     ELSE [ok |-> TRUE, exc |-> ""]

BatchFailed_swallowed(cid, exc) == NoErr
\* the value returned when send_batch raised
BatchFailed(cid, exc) == <<"WLED error on ", cid, ": ", exc>>

FilteredOut_never(cid, controllers_filter) == FALSE
\* if controllers_filter and cid not in controllers_filter: continue
FilteredOut(cid, controllers_filter) ==
    controllers_filter # <<>> /\ ~InList(cid, controllers_filter)

RECURSIVE ControllerLoop(_, _, _, _, _)
\* the loop over cfg_raw["controllers"] from position i on; calls are the
\* send_batch calls made so far
ControllerLoop(i, ctrls, st, failing, calls) ==
    IF i > Len(ctrls) THEN [err |-> NoErr, raised |-> FALSE, calls |-> calls]
    ELSE LET ctrl_entry == ctrls[i]
             cid        == ctrl_entry.id
             port       == Get(ctrl_entry, "port", I(80))
             segments   == Get(ctrl_entry, "segments", <<>>)
         IN  IF FilteredOut(cid, st.controllers_filter)
             THEN ControllerLoop(i + 1, ctrls, st, failing, calls)
             ELSE IF ~CanInt(port)
             THEN [err |-> NoErr, raised |-> TRUE, calls |-> calls]
             ELSE IF segments = <<>>
             THEN ControllerLoop(i + 1, ctrls, st, failing, calls)
             ELSE IF SegmentsRaise(cid, segments, st)
             THEN [err |-> NoErr, raised |-> TRUE, calls |-> calls]
             ELSE LET seg_updates == [k \in 1..Len(segments) |-> SegUpdate(cid, segments[k], st)]
                      sent == send_batch(i, failing)
                      call == [pos |-> i, cid |-> cid, host |-> ctrl_entry.host,
                               port |-> ToInt(port), seg_updates |-> seg_updates,
                               transition_ms |-> st.transition_ms, ok |-> sent.ok]
                  IN  IF ~sent.ok
                      THEN [err |-> BatchFailed(cid, sent.exc), raised |-> FALSE,
                            calls |-> Append(calls, call)]
                      ELSE ControllerLoop(i + 1, ctrls, st, failing, Append(calls, call))

InvalidBrightness_raises == [err |-> NoErr, raised |-> TRUE, calls |-> <<>>]
\* int() of a brightness raised inside the try: the ValueError is caught and
\* the error returned, before any controller is looked at
InvalidBrightness == [err |-> <<"Invalid brightness values">>, raised |-> FALSE, calls |-> <<>>]

\* _apply_segmentsolid(binding, cfg_raw): the error it returns (NoErr for None),
\* whether it raised instead, and the send_batch calls it made
_apply_segmentsolid(binding, cfg_raw, failing) ==
    LET found == EsdeModes(Get(cfg_raw, "application", <<>>))
    IN  IF found = <<>>
        THEN [err |-> <<"esde game-select mode not found">>, raised |-> FALSE, calls |-> <<>>]
        ELSE
        LET mode == found[1]
            abrightness == Get(mode, "abrightness", I(0))
            bbrightness == Get(mode, "bbrightness", I(0))
        IN  IF ~(CanInt(abrightness) /\ CanInt(bbrightness))
            THEN InvalidBrightness
            ELSE IF binding.t # "table"
            THEN [err |-> NoErr, raised |-> TRUE, calls |-> <<>>]
            ELSE IF ~("controller" \in DOMAIN binding /\ "segment" \in DOMAIN binding)
            THEN [err |-> <<"Binding missing controller/segment">>, raised |-> FALSE, calls |-> <<>>]
            ELSE ControllerLoop(1, Get(cfg_raw, "controllers", <<>>),
                    [controllers_filter |-> Get(mode, "controllers", <<>>),
                     acolor |-> Get(mode, "acolor", BLACK),
                     bcolor |-> Get(mode, "bcolor", BLACK),
                     abri |-> ToInt(abrightness),
                     bbri |-> ToInt(bbrightness),
                     transition_ms |-> Get(mode, "transition_ms",
                                           Get(cfg_raw, "default_transition_ms", NoTransition)),
                     target_controller |-> binding.controller,
                     target_segment |-> binding.segment],
                    failing, <<>>)

\* --------------------------------------------------------------- dispatch
\* message.get(key) is None
Absent == "<absent>"
\* not console_name
Falsy(v) == v \in {Absent, ""}

\* no response payload
NoResp == [status |-> "none"]
ErrorResp(msg) == [status |-> "error", error |-> msg]
OkResp(binding, console_name) == [status |-> "ok", binding |-> binding, console |-> console_name]

\* what handling one request did: the payload passed to _send_with_log, whether
\* an exception left the handler instead, whether load_config was called, what
\* find_esde_binding returned (None when it was not called), and the
\* send_batch calls
Outcome(resp, raised, loaded, binding, calls) ==
    [resp |-> resp, raised |-> raised, loaded |-> loaded, binding |-> binding, calls |-> calls]

\* serve, from load_config to the last _send_with_log
HandleConsole(console_name, file, failing) ==
    LET config == load_config(file)
    IN  IF ~config.ok
        THEN Outcome(ErrorResp(config.error), FALSE, TRUE, None, <<>>)
        ELSE LET binding == find_esde_binding(config.raw, console_name)
             IN  IF binding = None
                 THEN Outcome(ErrorResp(<<"console '", console_name, "' not found">>),
                              FALSE, TRUE, None, <<>>)
                 ELSE LET applied == _apply_segmentsolid(binding, config.raw, failing)
                      IN  IF applied.raised
                          THEN Outcome(NoResp, TRUE, TRUE, binding, applied.calls)
                          ELSE IF applied.err # NoErr
                          THEN Outcome(ErrorResp(applied.err), FALSE, TRUE, binding, applied.calls)
                          ELSE Outcome(OkResp(binding, console_name), FALSE, TRUE, binding, applied.calls)

HandleMessage_nameFirst(message, file, failing) ==
    IF Falsy(Get(message, "name", Absent))
    THEN Outcome(ErrorResp(<<"missing_name">>), FALSE, FALSE, None, <<>>)
    ELSE IF Get(message, "type", Absent) # "console"
         THEN Outcome(ErrorResp(<<"unsupported_type">>), FALSE, FALSE, None, <<>>)
         ELSE HandleConsole(Get(message, "name", Absent), file, failing)
\* serve, the checks of the type and the name of a decoded object
HandleMessage(message, file, failing) ==
    IF Get(message, "type", Absent) # "console"
    THEN Outcome(ErrorResp(<<"unsupported_type">>), FALSE, FALSE, None, <<>>)
    ELSE LET console_name == Get(message, "name", Absent)
         IN  IF Falsy(console_name)
             THEN Outcome(ErrorResp(<<"missing_name">>), FALSE, FALSE, None, <<>>)
             ELSE HandleConsole(console_name, file, failing)

HandleRaw_loadsFirst(raw, file, failing) ==
    LET decoded == json_loads(raw)
    IN  IF decoded.kind = "error"
        THEN Outcome(ErrorResp(<<"invalid_json">>), FALSE, TRUE, None, <<>>)
        ELSE IF decoded.kind # "object"
             THEN Outcome(NoResp, TRUE, TRUE, None, <<>>)
             ELSE [HandleMessage(decoded.obj, file, failing) EXCEPT !.loaded = TRUE]
\* serve, from json.loads on: a decoded document that is not an object has no
\* .get, the AttributeError leaves the handler
HandleRaw(raw, file, failing) ==
    LET decoded == json_loads(raw)
    IN  IF decoded.kind = "error"
        THEN Outcome(ErrorResp(<<"invalid_json">>), FALSE, FALSE, None, <<>>)
        ELSE IF decoded.kind # "object"
             THEN Outcome(NoResp, TRUE, FALSE, None, <<>>)
             ELSE HandleMessage(decoded.obj, file, failing)

\* ---------------------------------------------------------------- clients
\* the request texts a client sends, before the terminating newline
Messages ==
    { <<"{", "type=console", "name=snes", "}">>,
      <<"{", "type=console", "name=gba", "}">>,
      <<"{", "type=console", "name=SNES", "}">>,
      <<"{", "name=snes", "type=console", "}">>,
      <<"{", "type=console", "}">>,
      <<"{", "type=console", "name=", "}">>,
      <<"{", "type=led", "name=snes", "}">>,
      <<"{", "type=led", "}">>,
      <<"{", "}">>,
      <<"junk">>,
      <<"[]">>,
      <<>> }

RECURSIVE Splits(_, _)
\* the ways to cut s into at most n non-empty pieces
Splits(s, n) ==
    IF s = <<>> THEN {<<>>}
    ELSE IF n <= 1 THEN {<<s>>}
    ELSE {<<s>>} \cup
         UNION { { <<SubSeq(s, 1, k)>> \o rest : rest \in Splits(SubSeq(s, k + 1, Len(s)), n - 1) }
                 : k \in 1..(Len(s) - 1) }

\* what a client puts on the pipe: a message, with or without its newline, in
\* at most MaxChunks writes
Framings ==
    UNION { Splits(m, MaxChunks) \cup Splits(m \o <<"NL">>, MaxChunks) : m \in Messages }

\* the positions of the controller inventory the file holds
InventoryPositions(file) ==
    LET config == load_config(file)
    IN  IF config.ok THEN 1..Len(Get(config.raw, "controllers", <<>>)) ELSE {}

\* ------------------------------------------------------------------ state
VARIABLES
    pc,          \* where serve() is
    stop_event,  \* the threading.Event the tray sets on Quit
    file,        \* the content of the file at config_path
    handles,     \* pipe instances serve() holds open
    peer,        \* the client end of the connected instance: none, open, closed
    inbox,       \* writes of the client the server has not received yet
    chunks,      \* _read_message's chunks
    raw,         \* the bytes _read_message returned
    outcome,     \* what handling the request did (Outcome)
    seen,        \* the content of the file when the request was handled
    sent,        \* the bytes WriteFile put on the pipe
    events,      \* what happened on the current pipe instance, in order: create,
                 \* connect, a read that ended without a newline (read109, read0),
                 \* write, flush, disconnect, close
    exc,         \* the exception in flight: none, pipe (pywintypes.error), uncaught
    cli,         \* the client processes: where each is and how it ended
    prev         \* the request handled before the current one, as handled

vars == <<pc, stop_event, file, handles, peer, inbox, chunks, raw, outcome, seen,
          sent, events, exc, cli, prev>>

NoOutcome == Outcome(NoResp, FALSE, FALSE, None, <<>>)

\* the client processes, and the programs they run: runlights-cli (cli.py with
\* ipc.py) and standalone_cli.py
Clients == {"p1", "p2"}
Programs == {"cli", "standalone"}

\* a client process: stage is idle, connected (it wrote its request and waits
\* in ReadFile) or done; prog is its program, met what it ran into, code its
\* exit code, out what it printed, alive whether serve was running then
Client(stage, prog, met, code, out, alive) ==
    [stage |-> stage, prog |-> prog, met |-> met, code |-> code, out |-> out, alive |-> alive]
NotStarted == Client("idle", "", "", 0, <<>>, FALSE)

\* no request was handled before
NoPrev == [raw |-> <<>>, seen |-> Unread, outcome |-> NoOutcome]

Init ==
    /\ pc = "loop"
    /\ stop_event = FALSE
    /\ file \in FileStates
    /\ handles = 0
    /\ peer = "none"
    /\ inbox = <<>>
    /\ chunks = <<>>
    /\ raw = <<>>
    /\ outcome = NoOutcome
    /\ seen = Unread
    /\ sent = <<>>
    /\ events = <<>>
    /\ exc = "none"
    /\ cli = [c \in Clients |-> NotStarted]
    /\ prev = NoPrev

\* ------------------------------------------------------------ environment
\* the tray's Quit sets the stop event
StopRequest ==
    /\ ~stop_event
    /\ stop_event' = TRUE
    /\ UNCHANGED <<pc, file, handles, peer, inbox, chunks, raw, outcome, seen, sent, events, exc>>
    /\ UNCHANGED <<cli, prev>>

\* the configuration file is edited, removed or damaged.  serve looks at the
\* file in Dispatch only, so an edit at any other moment has the effect of one
\* made while serve waits for a client or just before it handles the request.
EditConfig ==
    /\ pc \in {"connect", "dispatch"}
    /\ \E f \in FileStates \ {file} : file' = f
    /\ UNCHANGED <<pc, stop_event, handles, peer, inbox, chunks, raw, outcome, seen, sent, events, exc>>
    /\ UNCHANGED <<cli, prev>>

\* the connected client closes its handle
ClientClose ==
    /\ peer = "open"
    /\ peer' = "closed"
    /\ UNCHANGED <<pc, stop_event, file, handles, inbox, chunks, raw, outcome, seen, sent, events, exc>>
    /\ UNCHANGED <<cli, prev>>

\* ------------------------------------------------------------------ serve
CheckStop_preemptive ==
    /\ pc \in {"loop", "reading", "dispatch", "write"}
    /\ stop_event
    /\ pc' = "stopped"
    /\ UNCHANGED <<stop_event, file, handles, peer, inbox, chunks, raw, outcome, seen, sent, events, exc>>
    /\ UNCHANGED <<cli, prev>>
\* while True: if stop_event.is_set(): break
CheckStop ==
    /\ pc = "loop"
    /\ stop_event
    /\ pc' = "stopped"
    /\ UNCHANGED <<stop_event, file, handles, peer, inbox, chunks, raw, outcome, seen, sent, events, exc>>
    /\ UNCHANGED <<cli, prev>>

\* _create_pipe: CreateNamedPipe returned a handle
CreatePipeOk ==
    /\ \/ pc = "loop" /\ ~stop_event
       \/ pc = "creating"
    /\ pc' = "connect"
    /\ handles' = handles + 1
    /\ events' = <<"create">>
    /\ chunks' = <<>>
    /\ raw' = <<>>
    /\ outcome' = NoOutcome
    /\ seen' = Unread
    /\ sent' = <<>>
    /\ UNCHANGED <<stop_event, file, peer, inbox, exc>>
    /\ UNCHANGED <<cli, prev>>

\* _create_pipe: winerror 231, sleep and try again
CreatePipeBusy ==
    /\ \/ pc = "loop" /\ ~stop_event
       \/ pc = "creating"
    /\ pc' = "creating"
    /\ UNCHANGED <<stop_event, file, handles, peer, inbox, chunks, raw, outcome, seen, sent, events, exc>>
    /\ UNCHANGED <<cli, prev>>

\* _create_pipe: any other error is raised, outside the try of serve
CreatePipeFatal ==
    /\ \/ pc = "loop" /\ ~stop_event
       \/ pc = "creating"
    /\ pc' = "crashed"
    /\ exc' = "pipe"
    /\ UNCHANGED <<stop_event, file, handles, peer, inbox, chunks, raw, outcome, seen, sent, events>>
    /\ UNCHANGED <<cli, prev>>

\* ConnectNamedPipe returns: a client opened the pipe and wrote
ClientConnect ==
    /\ pc = "connect"
    /\ \E framing \in Framings : inbox' = framing
    /\ peer' = "open"
    /\ pc' = "reading"
    /\ events' = Append(events, "connect")
    /\ UNCHANGED <<stop_event, file, handles, chunks, raw, outcome, seen, sent, exc>>
    /\ UNCHANGED <<cli, prev>>

\* ConnectNamedPipe raises pywintypes.error
ConnectError ==
    /\ pc = "connect"
    /\ exc' = "pipe"
    /\ pc' = "disconnect"
    /\ UNCHANGED <<stop_event, file, handles, peer, inbox, chunks, raw, outcome, seen, sent, events>>
    /\ UNCHANGED <<cli, prev>>

\* _read_message returned data: serve goes on if it is not empty
AfterRead(data) == IF data = <<>> THEN "disconnect" ELSE "dispatch"

\* _read_message: ReadFile returned a chunk
ReadChunk ==
    /\ pc = "reading"
    /\ inbox # <<>>
    /\ inbox' = Tail(inbox)
    /\ LET data == Head(inbox)
           all  == Append(chunks, data)
       IN  IF InList("NL", data)
           THEN /\ raw' = Join(all)
                /\ chunks' = <<>>
                /\ pc' = AfterRead(Join(all))
           ELSE /\ chunks' = all
                /\ UNCHANGED <<raw, pc>>
    /\ UNCHANGED <<stop_event, file, handles, peer, outcome, seen, sent, events, exc>>
    /\ UNCHANGED <<cli, prev>>

\* _read_message: ReadFile raised winerror 109, the peer closed the pipe
ReadClosed ==
    /\ pc = "reading"
    /\ inbox = <<>>
    /\ peer = "closed"
    /\ raw' = Join(chunks)
    /\ chunks' = <<>>
    /\ pc' = AfterRead(Join(chunks))
    /\ events' = Append(events, "read109")
    /\ UNCHANGED <<stop_event, file, handles, peer, inbox, outcome, seen, sent, exc>>
    /\ UNCHANGED <<cli, prev>>

\* _read_message: ReadFile returned no data (a zero-length write of the peer)
ReadEmpty ==
    /\ pc = "reading"
    /\ inbox = <<>>
    /\ peer = "open"
    /\ raw' = Join(chunks)
    /\ chunks' = <<>>
    /\ pc' = AfterRead(Join(chunks))
    /\ events' = Append(events, "read0")
    /\ UNCHANGED <<stop_event, file, handles, peer, inbox, outcome, seen, sent, exc>>
    /\ UNCHANGED <<cli, prev>>

\* _read_message: ReadFile raised another pywintypes.error
ReadError ==
    /\ pc = "reading"
    /\ exc' = "pipe"
    /\ chunks' = <<>>
    /\ pc' = "disconnect"
    /\ UNCHANGED <<stop_event, file, handles, peer, inbox, raw, outcome, seen, sent, events>>
    /\ UNCHANGED <<cli, prev>>

ReadConfigPath_cached == IF prev.seen # Unread THEN prev.seen ELSE file
\* what load_config(config_path) reads: the file as it is when the request is
\* handled
ReadConfigPath == file

Dispatch_skipRepeat ==
    /\ pc = "dispatch"
    /\ \E failing \in SUBSET InventoryPositions(ReadConfigPath) :
          LET out == IF prev.seen # Unread /\ raw = prev.raw
                     THEN Outcome(ErrorResp(<<"unchanged">>), FALSE, FALSE, None, <<>>)
                     ELSE HandleRaw(raw, ReadConfigPath, failing)
          IN  /\ outcome' = out
              /\ IF out.raised
                 THEN /\ exc' = "uncaught"
                      /\ pc' = "disconnect"
                 ELSE /\ exc' = exc
                      /\ pc' = "write"
    /\ seen' = file
    /\ UNCHANGED <<stop_event, file, handles, peer, inbox, chunks, raw, sent, events>>
    /\ UNCHANGED <<cli, prev>>
\* serve, lines 62-98 up to the call of _send_with_log: decode, check, load the
\* configuration, resolve, plan and apply
Dispatch ==
    /\ pc = "dispatch"
    /\ \E failing \in SUBSET InventoryPositions(ReadConfigPath) :
          LET out == HandleRaw(raw, ReadConfigPath, failing)
          IN  /\ outcome' = out
              /\ IF out.raised
                 THEN /\ exc' = "uncaught"
                      /\ pc' = "disconnect"
                 ELSE /\ exc' = exc
                      /\ pc' = "write"
    /\ seen' = file
    /\ UNCHANGED <<stop_event, file, handles, peer, inbox, chunks, raw, sent, events>>
    /\ UNCHANGED <<cli, prev>>

WriteOk_noflush ==
    /\ pc = "write"
    /\ peer = "open"
    /\ sent' = Encode(outcome.resp)
    /\ events' = Append(events, "write")
    /\ pc' = "disconnect"
    /\ UNCHANGED <<stop_event, file, handles, peer, inbox, chunks, raw, outcome, seen, exc>>
    /\ UNCHANGED <<cli, prev>>
\* _send_message: WriteFile
WriteOk ==
    /\ pc = "write"
    /\ peer = "open"
    /\ sent' = Encode(outcome.resp)
    /\ events' = Append(events, "write")
    /\ pc' = "flush"
    /\ UNCHANGED <<stop_event, file, handles, peer, inbox, chunks, raw, outcome, seen, exc>>
    /\ UNCHANGED <<cli, prev>>

\* _send_message: WriteFile raises pywintypes.error
WriteError ==
    /\ pc = "write"
    /\ exc' = "pipe"
    /\ pc' = "disconnect"
    /\ UNCHANGED <<stop_event, file, handles, peer, inbox, chunks, raw, outcome, seen, sent, events>>
    /\ UNCHANGED <<cli, prev>>

\* _send_message: FlushFileBuffers returns once the client has read the bytes
FlushOk ==
    /\ pc = "flush"
    /\ \A c \in Clients : cli[c].stage # "connected"
    /\ events' = Append(events, "flush")
    /\ pc' = "disconnect"
    /\ UNCHANGED <<stop_event, file, handles, peer, inbox, chunks, raw, outcome, seen, sent, exc>>
    /\ UNCHANGED <<cli, prev>>

\* _send_message: FlushFileBuffers raises pywintypes.error
FlushError ==
    /\ pc = "flush"
    /\ events' = Append(events, "flush")
    /\ exc' = "pipe"
    /\ pc' = "disconnect"
    /\ UNCHANGED <<stop_event, file, handles, peer, inbox, chunks, raw, outcome, seen, sent>>
    /\ UNCHANGED <<cli, prev>>

\* finally: DisconnectNamedPipe
Disconnect ==
    /\ pc = "disconnect"
    /\ events' = Append(events, "disconnect")
    /\ pc' = "close"
    /\ UNCHANGED <<stop_event, file, handles, peer, inbox, chunks, raw, outcome, seen, sent, exc>>
    /\ UNCHANGED <<cli, prev>>

CloseHandle_leaks ==
    /\ pc = "close"
    /\ events' = IF exc = "uncaught" THEN events ELSE Append(events, "close")
    /\ handles' = IF exc = "uncaught" THEN handles ELSE handles - 1
    /\ peer' = "none"
    /\ inbox' = <<>>
    /\ pc' = IF exc = "uncaught" THEN "crashed" ELSE "loop"
    /\ exc' = IF exc = "uncaught" THEN exc ELSE "none"
    /\ UNCHANGED <<stop_event, file, chunks, raw, outcome, seen, sent>>
    /\ UNCHANGED <<cli, prev>>
\* finally: CloseHandle; a pywintypes.error was logged, any other exception
\* leaves serve()
CloseHandle ==
    /\ pc = "close"
    /\ events' = Append(events, "close")
    /\ handles' = handles - 1
    /\ peer' = "none"
    /\ inbox' = <<>>
    /\ pc' = IF exc = "uncaught" THEN "crashed" ELSE "loop"
    /\ exc' = IF exc = "uncaught" THEN exc ELSE "none"
    /\ UNCHANGED <<stop_event, file, chunks, raw, outcome, seen, sent>>
    /\ UNCHANGED <<cli, prev>>

\* ---------------------------------------------------------- client programs
\* the console names the clients are started with
CliNames == {"snes", LongName}

\* format_console_message(console_name)
format_console_message(console_name) ==
    <<"{", "type=console",
      CHOOSE tok \in DOMAIN JsonMembers : JsonMembers[tok] = [key |-> "name", val |-> console_name],
      "}">>

\* the response is longer than the 4096 bytes the client reads: it carries
\* the long console name
TooLong(payload) ==
    \/ payload.status = "ok" /\ payload.console = LongName
    \/ payload.status = "error" /\ InList(LongName, payload.error)

\* the data ReadFile(handle, 4096) returns of the bytes the server wrote
ReadFile4096(bytes) ==
    IF TooLong(bytes[2]) THEN SubSeq(bytes, 1, 2) ELSE bytes

\* what send_console_request does: it raises IPCNotReady(msg) or returns value
Raised(msg) == [raised |-> TRUE, msg |-> msg, value |-> NoResp]
Returned(value) == [raised |-> FALSE, msg |-> <<>>, value |-> value]

\* CreateFile raised pywintypes.error
OpenFailed(winerror) ==
    IF winerror = 2
    THEN Raised(<<"Tray IPC not running (pipe not found)">>)
    ELSE Raised(<<"Tray IPC error opening pipe: ", winerror>>)

\* WriteFile or ReadFile raised pywintypes.error
ReadWriteFailed(winerror) == Raised(<<"Tray IPC read/write error: ", winerror>>)

\* json.loads(data.decode("utf-8").strip()) of the data read
ResponseLoads(data) ==
    IF Len(data) >= 3 /\ data[1] = "{" /\ data[3] = "}"
    THEN Returned(data[2])
    ELSE Raised(<<"Tray IPC response not valid JSON: ", "data">>)

\* handle_console up to the call of send_console_request: exit code 0 stands
\* for going on
Precheck(cfile, name) ==
    LET config == load_config(cfile)
    IN  IF ~config.ok
        THEN [code |-> 2, out |-> <<"[error] ">> \o config.error]
        ELSE IF find_esde_binding(config.raw, name) = None
             THEN [code |-> 3, out |-> <<"[error] console '", name, "' not found in ESDE bindings">>]
             ELSE [code |-> 0, out |-> <<>>]

\* handle_console after send_console_request: the value returned is dropped
handle_console(result) ==
    IF result.raised
    THEN [code |-> 4, out |-> <<"[warn] ">> \o result.msg]
    ELSE [code |-> 0, out |-> <<>>]

\* standalone_cli.send_console: every path returns 0 and prints nothing
send_console(result) == [code |-> 0, out |-> <<>>]

\* the exit code and the output of a program for a result of the pipe exchange
ClientEnd(prog, result) ==
    IF prog = "cli" THEN handle_console(result) ELSE send_console(result)

\* the program gets as far as opening the pipe with this name: runlights-cli
\* resolves the name in its own --config file first
OpensPipe(prog, name) ==
    prog = "cli" => \E cfile \in FileStates : Precheck(cfile, name).code = 0

\* serve is running: it has created its pipe, it has not returned and no
\* exception has left it
Alive == events # <<>> /\ pc \notin {"stopped", "crashed"}

\* client c, running prog, ends with result after it met what
Ended(c, prog, met, result) ==
    cli' = [cli EXCEPT ![c] = Client("done", prog, met, ClientEnd(prog, result).code,
                                     ClientEnd(prog, result).out, Alive)]

\* runlights-cli: load_config raises ConfigError, or the name has no binding
CliPrecheckFails(c) ==
    /\ cli[c].stage = "idle"
    /\ \E cfile \in FileStates, name \in CliNames :
          LET pre == Precheck(cfile, name)
          IN  /\ pre.code # 0
              /\ cli' = [cli EXCEPT ![c] =
                            Client("done", "cli", IF pre.code = 2 THEN "config" ELSE "unbound",
                                   pre.code, pre.out, Alive)]
    /\ UNCHANGED <<pc, stop_event, file, handles, peer, inbox, chunks, raw, outcome, seen,
                   sent, events, exc, prev>>

\* CreateFile raises winerror 2: no instance of the pipe exists
CliOpenNotFound(c) ==
    /\ cli[c].stage = "idle"
    /\ handles = 0
    /\ \E prog \in Programs, name \in CliNames :
          /\ OpensPipe(prog, name)
          /\ Ended(c, prog, "not_found", OpenFailed(2))
    /\ UNCHANGED <<pc, stop_event, file, handles, peer, inbox, chunks, raw, outcome, seen,
                   sent, events, exc, prev>>

\* CreateFile raises winerror 231: the one instance is not waiting for a client
CliOpenBusy(c) ==
    /\ cli[c].stage = "idle"
    /\ handles = 1
    /\ pc # "connect"
    /\ \E prog \in Programs, name \in CliNames :
          /\ OpensPipe(prog, name)
          /\ Ended(c, prog, "busy", OpenFailed(231))
    /\ UNCHANGED <<pc, stop_event, file, handles, peer, inbox, chunks, raw, outcome, seen,
                   sent, events, exc, prev>>

\* CreateFile and WriteFile succeed, ConnectNamedPipe returns in serve: the
\* client waits in ReadFile
CliConnect(c) ==
    /\ cli[c].stage = "idle"
    /\ \A d \in Clients : cli[d].stage # "connected"
    /\ pc = "connect"
    /\ \E prog \in Programs, name \in CliNames :
          /\ OpensPipe(prog, name)
          /\ inbox' = <<format_console_message(name) \o <<"NL">> >>
          /\ cli' = [cli EXCEPT ![c] = Client("connected", prog, "", 0, <<>>, Alive)]
    /\ peer' = "open"
    /\ pc' = "reading"
    /\ events' = Append(events, "connect")
    /\ UNCHANGED <<stop_event, file, handles, chunks, raw, outcome, seen, sent, exc, prev>>

\* ReadFile returns the response; the handle is closed and the data decoded
CliReadResponse(c) ==
    /\ cli[c].stage = "connected"
    /\ pc \in {"flush", "disconnect"}
    /\ sent # <<>>
    /\ LET result == ResponseLoads(ReadFile4096(sent))
       IN  Ended(c, cli[c].prog, IF result.raised THEN "garbage" ELSE result.value.status, result)
    /\ peer' = "closed"
    /\ UNCHANGED <<pc, stop_event, file, handles, inbox, chunks, raw, outcome, seen,
                   sent, events, exc, prev>>

\* ReadFile raises: serve disconnected the instance and the response was not read
CliReadBroken(c) ==
    /\ cli[c].stage = "connected"
    /\ pc \notin {"reading", "dispatch", "write", "flush", "disconnect"}
    /\ Ended(c, cli[c].prog, "broken", ReadWriteFailed(109))
    /\ peer' = IF peer = "open" THEN "closed" ELSE peer
    /\ UNCHANGED <<pc, stop_event, file, handles, inbox, chunks, raw, outcome, seen,
                   sent, events, exc, prev>>

Next ==
    \/ StopRequest
    \/ EditConfig
    \/ ClientClose
    \/ CheckStop
    \/ CreatePipeOk
    \/ CreatePipeBusy
    \/ CreatePipeFatal
    \/ ClientConnect
    \/ ConnectError
    \/ ReadChunk
    \/ ReadClosed
    \/ ReadEmpty
    \/ ReadError
    \/ Dispatch
    \/ WriteOk
    \/ WriteError
    \/ FlushOk
    \/ FlushError
    \/ Disconnect
    \/ CloseHandle

Spec == Init /\ [][Next]_vars

\* the requests that name a console, as one line
ConsoleMessages ==
    { m \in Messages :
        LET decoded == json_loads(m)
        IN  /\ decoded.kind = "object"
            /\ Get(decoded.obj, "type", Absent) = "console"
            /\ ~Falsy(Get(decoded.obj, "name", Absent)) }

\* ConnectNamedPipe returns: a client opened the pipe and wrote a console
\* request and its newline in one write
SerialConnect ==
    /\ pc = "connect"
    /\ \E m \in ConsoleMessages : inbox' = << m \o <<"NL">> >>
    /\ peer' = "open"
    /\ pc' = "reading"
    /\ events' = Append(events, "connect")
    /\ UNCHANGED <<stop_event, file, handles, chunks, raw, outcome, seen, sent, exc>>
    /\ UNCHANGED <<cli, prev>>

\* finally: CloseHandle, with a note of the request that was handled on the
\* instance
CloseHandleNoted ==
    /\ pc = "close"
    /\ events' = Append(events, "close")
    /\ handles' = handles - 1
    /\ peer' = "none"
    /\ inbox' = <<>>
    /\ pc' = IF exc = "uncaught" THEN "crashed" ELSE "loop"
    /\ exc' = IF exc = "uncaught" THEN exc ELSE "none"
    /\ prev' = IF seen # Unread THEN [raw |-> raw, seen |-> seen, outcome |-> outcome] ELSE prev
    /\ UNCHANGED <<stop_event, file, chunks, raw, outcome, seen, sent, cli>>

\* console requests served one after the other over a pipe that works, while
\* the configuration file is edited
SerialNext ==
    \/ EditConfig
    \/ CreatePipeOk
    \/ SerialConnect
    \/ ReadChunk
    \/ Dispatch
    \/ WriteOk
    \/ FlushOk
    \/ Disconnect
    \/ CloseHandleNoted

SerialSpec == Init /\ [][SerialNext]_vars

\* serve and two client processes; the file at config_path is absent or
\* holds the long console name, and is left alone
ClientInit == Init /\ file \in {Missing, <<"toml", Len(Configs)>>}

ClientNext ==
    \/ StopRequest
    \/ CheckStop
    \/ CreatePipeOk
    \/ CreatePipeBusy
    \/ CreatePipeFatal
    \/ ConnectError
    \/ ReadChunk
    \/ ReadError
    \/ Dispatch
    \/ WriteOk
    \/ WriteError
    \/ FlushOk
    \/ FlushError
    \/ Disconnect
    \/ CloseHandle
    \/ \E c \in Clients : CliPrecheckFails(c)
    \/ \E c \in Clients : CliOpenNotFound(c)
    \/ \E c \in Clients : CliOpenBusy(c)
    \/ \E c \in Clients : CliConnect(c)
    \/ \E c \in Clients : CliReadResponse(c)
    \/ \E c \in Clients : CliReadBroken(c)

ClientSpec == ClientInit /\ [][ClientNext]_vars

\* the steps serve takes by itself once they are possible: its own statements
\* and the pipe calls that return without a peer having to act.  A client
\* connecting, writing or closing, and the tray's Quit, are not among them.
ServeStep ==
    \/ CheckStop
    \/ CreatePipeOk
    \/ ReadChunk
    \/ ReadClosed
    \/ WriteOk
    \/ WriteError
    \/ FlushOk
    \/ Disconnect
    \/ CloseHandle

\* shutdown does not depend on the configuration: the file is the README's
\* example and is left alone
FairInit == Init /\ file = <<"toml", 1>>

FairNext ==
    \/ StopRequest
    \/ ClientClose
    \/ CheckStop
    \/ CreatePipeOk
    \/ CreatePipeBusy
    \/ CreatePipeFatal
    \/ ClientConnect
    \/ ConnectError
    \/ ReadChunk
    \/ ReadClosed
    \/ ReadEmpty
    \/ ReadError
    \/ Dispatch
    \/ WriteOk
    \/ WriteError
    \/ FlushOk
    \/ FlushError
    \/ Disconnect
    \/ CloseHandle

\* serve runs in a thread that is scheduled: it does not stop between steps.
\* Dispatch is possible whenever serve is at "dispatch" and always leaves it, so
\* weak fairness of Dispatch is that serve is not at "dispatch" for ever.  A
\* client that connected closes its handle in the end (ipc.py, finally); no
\* client has to connect.
FairSpec ==
    /\ FairInit
    /\ [][FairNext]_vars
    /\ WF_vars(ServeStep)
    /\ []<>(pc # "dispatch")
    /\ WF_vars(ClientClose)

TypeOK ==
    /\ pc \in {"loop", "creating", "connect", "reading", "dispatch", "write", "flush",
               "disconnect", "close", "stopped", "crashed"}
    /\ stop_event \in BOOLEAN
    /\ file \in FileStates
    /\ handles \in 0..1
    /\ peer \in {"none", "open", "closed"}
    /\ exc \in {"none", "pipe", "uncaught"}

\* ------------------------------------------------- vocabulary of the claims
\* the request was handled: serve got past _read_message with bytes in hand
Handled == seen # Unread

\* the decoded request; garbage and documents without members have no fields
Decoded == json_loads(raw)
ReqFields == IF Decoded.kind = "object" THEN Decoded.obj ELSE <<>>
ReqType == Get(ReqFields, "type", Absent)
ReqName == Get(ReqFields, "name", Absent)

\* the configuration content the request was handled with
SeenLoads == Handled /\ seen[1] = "toml"
SeenCfg == Configs[seen[2]]

\* the (application, mode) positions with ids "esde" / "game-select"
ModePairs(cfg) ==
    LET apps == Get(cfg, "application", <<>>)
    IN  UNION { { <<i, j>> : j \in { m \in 1..Len(apps[i].modes) :
                                        apps[i].modes[m].id = "game-select" } }
                : i \in { a \in 1..Len(apps) : apps[a].id = "esde" } }

\* the first of them in document order
FirstPair(cfg) ==
    CHOOSE p \in ModePairs(cfg) :
        \A q \in ModePairs(cfg) : p[1] < q[1] \/ (p[1] = q[1] /\ p[2] <= q[2])

\* the mode entry esde / game-select of a configuration that has one
TheMode(cfg) == cfg.application[FirstPair(cfg)[1]].modes[FirstPair(cfg)[2]]

\* its binding table; no entries when the application or the mode is absent
BindingTable(cfg) ==
    IF ModePairs(cfg) = {} THEN <<>> ELSE Get(TheMode(cfg), "bindings", <<>>)

\* the positions of the send_batch calls that failed
FailedCalls == { k \in 1..Len(outcome.calls) : ~outcome.calls[k].ok }

\* --------------------------------------------------------------------- C1
\* The six dispatch checks, each stated on its own.  A check that cannot be
\* evaluated because an earlier one failed counts as failed.
CheckFails(n) ==
    CASE n = 1 -> Decoded.kind = "error"
      [] n = 2 -> ReqType # "console"
      [] n = 3 -> ReqName \in {Absent, ""}
      [] n = 4 -> ~SeenLoads
      [] n = 5 -> ~SeenLoads \/ ReqName \notin DOMAIN BindingTable(SeenCfg)
      [] n = 6 -> /\ SeenLoads
                  /\ ReqName \in DOMAIN BindingTable(SeenCfg)
                  /\ _apply_segmentsolid(BindingTable(SeenCfg)[ReqName], SeenCfg,
                        {outcome.calls[k].pos : k \in FailedCalls}).err # NoErr

\* the error each check answers with
CheckError(n) ==
    CASE n = 1 -> <<"invalid_json">>
      [] n = 2 -> <<"unsupported_type">>
      [] n = 3 -> <<"missing_name">>
      [] n = 4 -> load_config(seen).error
      [] n = 5 -> <<"console '", ReqName, "' not found">>
      [] n = 6 -> _apply_segmentsolid(BindingTable(SeenCfg)[ReqName], SeenCfg,
                        {outcome.calls[k].pos : k \in FailedCalls}).err

FailedChecks == { n \in 1..6 : CheckFails(n) }
FirstFailedCheck == CHOOSE n \in FailedChecks : \A m \in FailedChecks : n <= m

\* C1: whenever the server has a response for a request, it is the error of
\* the first check, in the order invalid_json, unsupported_type, missing_name,
\* configuration error, console not found, planner error, that the request
\* fails, and the ok response when it fails none.
C1_FirstFailingCheck ==
    (Handled /\ outcome.resp # NoResp) =>
        IF FailedChecks = {}
        THEN outcome.resp.status = "ok"
        ELSE outcome.resp = ErrorResp(CheckError(FirstFailedCheck))

\* a request with a wrong type and no name, handled while the configuration
\* file is missing, was answered unsupported_type
C1_Witness ==
    /\ Handled
    /\ {2, 3, 4} \subseteq FailedChecks
    /\ 1 \notin FailedChecks
    /\ outcome.resp = ErrorResp(<<"unsupported_type">>)

\* --------------------------------------------------------------------- C8
\* C8: whenever find_esde_binding was called for a request, it returned the
\* stored binding if the console name is a key (compared exactly) of the
\* binding table of application "esde" / mode "game-select", and None
\* otherwise, whatever other applications and modes bind.
C8_ResolveExact ==
    (Handled /\ outcome.loaded /\ SeenLoads) =>
        outcome.binding = IF ReqName \in DOMAIN BindingTable(SeenCfg)
                          THEN BindingTable(SeenCfg)[ReqName]
                          ELSE None

\* "snes" was resolved to the binding of esde / game-select in a configuration
\* that binds names under another application and another mode as well
C8_Witness ==
    /\ Handled /\ outcome.loaded
    /\ seen = <<"toml", 4>>
    /\ ReqName = "snes"
    /\ outcome.binding = B("a", 0)

\* ------------------------------------------------------- plans, in general
\* the request is a console request with a name
ConsoleRequest == Decoded.kind = "object" /\ ReqType = "console" /\ ReqName \notin {Absent, ""}

\* the name is bound in the configuration the request was handled with
Bound == SeenLoads /\ ReqName \in DOMAIN BindingTable(SeenCfg)
TheBinding == BindingTable(SeenCfg)[ReqName]

\* the binding is a table with a controller and a segment, and both brightness
\* values of the mode are integers: the planner gets to the controller loop
Plannable ==
    /\ Handled /\ ConsoleRequest /\ Bound
    /\ TheBinding.t = "table"
    /\ {"controller", "segment"} \subseteq DOMAIN TheBinding
    /\ CanInt(Get(TheMode(SeenCfg), "abrightness", I(0)))
    /\ CanInt(Get(TheMode(SeenCfg), "bbrightness", I(0)))

\* the planner ran and returned (no exception left it)
Planned == Plannable /\ ~outcome.raised

Inventory == Get(SeenCfg, "controllers", <<>>)
AllowList == Get(TheMode(SeenCfg), "controllers", <<>>)
Allowed(cid) == AllowList = <<>> \/ \E n \in 1..Len(AllowList) : AllowList[n] = cid

\* the inventory positions of the controllers that are to be updated
EligiblePositions ==
    { i \in 1..Len(Inventory) : Allowed(Inventory[i].id) /\ Inventory[i].segments # <<>> }

\* the inventory positions send_batch was called for
CalledPositions == { outcome.calls[k].pos : k \in 1..Len(outcome.calls) }

\* the segment updates of all calls, as (call, index) pairs
Updates == UNION { { <<k, n>> : n \in 1..Len(outcome.calls[k].seg_updates) }
                   : k \in 1..Len(outcome.calls) }
UpdateAt(p) == outcome.calls[p[1]].seg_updates[p[2]]

\* the update is for the bound (controller, segment)
OnBinding(p) ==
    /\ outcome.calls[p[1]].cid = TheBinding.controller
    /\ UpdateAt(p).segment = TheBinding.segment

ActiveBrightness == ToInt(Get(TheMode(SeenCfg), "abrightness", I(0)))
BaseBrightness == ToInt(Get(TheMode(SeenCfg), "bbrightness", I(0)))
ActiveColor == _hex_to_rgb(Get(TheMode(SeenCfg), "acolor", BLACK))
BaseColor == _hex_to_rgb(Get(TheMode(SeenCfg), "bcolor", BLACK))

\* the update carries the active, or the base, colour and brightness
StyledAsBound(p) ==
    IF OnBinding(p)
    THEN UpdateAt(p).brightness = ActiveBrightness /\ UpdateAt(p).color = ActiveColor
    ELSE UpdateAt(p).brightness = BaseBrightness /\ UpdateAt(p).color = BaseColor

\* --------------------------------------------------------------------- C2
\* C2: a console request whose name is bound to a controller and a segment,
\* handled with a configuration that loads and has integer brightness values,
\* with every send_batch call accepted, is answered {ok, binding, console};
\* send_batch was called once for each eligible controller, in inventory
\* order, with one update per segment, the bound segment styled active and the
\* others base.  For the example configuration and "snes" the updates are
\* segment 0 and 1 off/0/(0,0,0) and segment 2 on/255/(255,0,0).
C2_EndToEndSuccess ==
    (Planned /\ FailedCalls = {}) =>
        /\ outcome.resp = OkResp(TheBinding, ReqName)
        /\ CalledPositions = EligiblePositions
        /\ Len(outcome.calls) = Cardinality(EligiblePositions)
        /\ \A k \in 1..Len(outcome.calls) :
              /\ outcome.calls[k].cid = Inventory[outcome.calls[k].pos].id
              /\ Len(outcome.calls[k].seg_updates) = Len(Inventory[outcome.calls[k].pos].segments)
              /\ \A j \in 1..Len(outcome.calls) : j < k => outcome.calls[j].pos < outcome.calls[k].pos
        /\ \A p \in Updates :
              /\ UpdateAt(p).segment = Inventory[outcome.calls[p[1]].pos].segments[p[2]].id
              /\ StyledAsBound(p)
        /\ (seen = <<"toml", 1>> /\ ReqName = "snes") =>
              /\ outcome.resp = [status |-> "ok",
                                 binding |-> [t |-> "table", controller |-> "livingroom", segment |-> 2],
                                 console |-> "snes"]
              /\ Len(outcome.calls) = 1
              /\ outcome.calls[1].seg_updates =
                    << [on |-> FALSE, brightness |-> 0, color |-> <<0, 0, 0>>, segment |-> 0],
                       [on |-> FALSE, brightness |-> 0, color |-> <<0, 0, 0>>, segment |-> 1],
                       [on |-> TRUE, brightness |-> 255, color |-> <<255, 0, 0>>, segment |-> 2] >>

\* the example request was planned, applied, answered ok and the answer written
C2_Witness ==
    /\ Planned /\ FailedCalls = {}
    /\ seen = <<"toml", 1>> /\ ReqName = "snes"
    /\ Len(outcome.calls) = 1
    /\ outcome.resp.status = "ok"
    /\ sent = Encode(outcome.resp)

\* --------------------------------------------------------------------- C3
\* C3: when the planner returned, send_batch was called for every eligible
\* controller of the inventory, also for those after a controller whose call
\* failed.
C3_RemainingControllersCalled ==
    Planned => EligiblePositions \subseteq CalledPositions

\* --------------------------------------------------------------------- C4
\* C4: when the planner returned, the answer is ok exactly if no send_batch
\* call failed; if one failed, the answer is the error "WLED error on <id>:
\* <message>" of the failing controller, and every eligible controller before
\* it in the inventory was called and accepted its update.
C4_OkIffNoFailure ==
    Planned =>
        /\ outcome.resp.status = "ok" <=> FailedCalls = {}
        /\ FailedCalls # {} =>
              LET k    == CHOOSE f \in FailedCalls : \A g \in FailedCalls : f <= g
                  call == outcome.calls[k]
              IN  /\ outcome.resp = ErrorResp(<<"WLED error on ", Inventory[call.pos].id,
                                                ": ", "WLED request failed">>)
                  /\ \A i \in EligiblePositions :
                        i < call.pos => \E j \in 1..Len(outcome.calls) :
                                            outcome.calls[j].pos = i /\ outcome.calls[j].ok

\* of three eligible controllers the first accepted and the second failed, and
\* the answer names the second
C4_Witness ==
    /\ Planned
    /\ seen = <<"toml", 2>>
    /\ Len(outcome.calls) = 2
    /\ outcome.calls[1].ok /\ ~outcome.calls[2].ok
    /\ outcome.resp = ErrorResp(<<"WLED error on ", "b", ": ", "WLED request failed">>)

\* --------------------------------------------------------------------- C5
\* C5: every request that was handled, whatever its bytes and whatever the
\* content of a loadable configuration, has a structured response, and no
\* exception raised while handling it ends serve().
C5_RecoveredAtRequestBoundary ==
    /\ Handled => (outcome.resp.status \in {"ok", "error"} /\ ~outcome.raised)
    /\ exc # "uncaught"

\* --------------------------------------------------------------------- C6
\* controller ids are unique, and segment ids are unique within a controller
UniqueIds ==
    /\ \A i, j \in 1..Len(Inventory) : Inventory[i].id = Inventory[j].id => i = j
    /\ \A i \in 1..Len(Inventory) :
          \A m, n \in 1..Len(Inventory[i].segments) :
              Inventory[i].segments[m].id = Inventory[i].segments[n].id => m = n

\* the bound controller is in the inventory, allowed, and has the bound segment
BoundSegmentEligible ==
    \E i \in 1..Len(Inventory) :
        /\ Inventory[i].id = TheBinding.controller
        /\ Allowed(Inventory[i].id)
        /\ \E n \in 1..Len(Inventory[i].segments) :
              Inventory[i].segments[n].id = TheBinding.segment

\* the bound controller is excluded by a non-empty allow-list
BoundControllerExcluded == AllowList # <<>> /\ ~Allowed(TheBinding.controller)

\* C6: in the plan of a configuration with unique ids, an update has the
\* active colour and brightness if it is for the bound (controller, segment)
\* and the base ones otherwise; exactly one update of the plan is for the
\* bound pair when the bound controller is eligible and has the segment, and
\* none when the allow-list excludes the bound controller.
C6_ExactlyOneActive ==
    (Planned /\ UniqueIds) =>
        /\ \A p \in Updates : StyledAsBound(p)
        /\ BoundSegmentEligible => Cardinality({p \in Updates : OnBinding(p)}) = 1
        /\ BoundControllerExcluded => Cardinality({p \in Updates : OnBinding(p)}) = 0

\* --------------------------------------------------------------------- C7
\* C7: every segment update handed to send_batch has on = (brightness > 0).
C7_OnIffPositive ==
    \A p \in Updates : UpdateAt(p).on <=> UpdateAt(p).brightness > 0

\* one plan holds an update with brightness 0 and a colour that is not black,
\* which is off, and an update with positive brightness, which is on
C7_Witness ==
    /\ \E p \in Updates : /\ UpdateAt(p).brightness = 0
                          /\ UpdateAt(p).color = <<255, 0, 0>>
                          /\ ~UpdateAt(p).on
    /\ \E p \in Updates : UpdateAt(p).brightness > 0 /\ UpdateAt(p).on

\* --------------------------------------------------------------------- C9
\* C9: when the peer closed the pipe before a newline was received, what was
\* read is discarded: the request is not handled and nothing is written.
C9_UnterminatedDiscarded ==
    InList("read109", events) => (~Handled /\ sent = <<>>)

\* -------------------------------------------------------------------- C10
IsPrefix(a, b) == Len(a) <= Len(b) /\ a = SubSeq(b, 1, Len(a))

\* the calls on the pipe instance that send the response and release it
ReleaseCalls == SelectSeq(events, LAMBDA e : e \in {"write", "flush", "disconnect", "close"})

\* C10: what was written on the pipe is the JSON object of the response
\* followed by a newline, and the calls on a pipe instance are, in this order,
\* WriteFile, FlushFileBuffers, DisconnectNamedPipe, CloseHandle (the first two
\* only when a response is written): no instance is disconnected or closed
\* between the write and the flush.
C10_FlushBeforeRelease ==
    /\ sent # <<>> =>
          /\ outcome.resp.status \in {"ok", "error"}
          /\ sent = <<"{", outcome.resp, "}", "NL">>
    /\ InList("write", events) <=> sent # <<>>
    /\ \/ IsPrefix(ReleaseCalls, <<"write", "flush", "disconnect", "close">>)
       \/ IsPrefix(ReleaseCalls, <<"disconnect", "close">>)

\* a response was written, flushed, and the instance disconnected and closed
C10_Witness ==
    /\ sent # <<>>
    /\ ReleaseCalls = <<"write", "flush", "disconnect", "close">>

\* -------------------------------------------------------------------- C11
\* C11: the loop exits on the stop signal only from the start of an accept
\* cycle, never from a step that reads, handles or answers a request, and
\* after it has exited no pipe instance is created and no connection accepted.
C11_StopOnlyAtCycleStart ==
    [][ /\ pc' = "stopped" => (pc \in {"loop", "stopped"} /\ stop_event)
        /\ pc = "stopped" => (pc' = "stopped" /\ handles' = handles
                               /\ events' = events /\ peer' = peer) ]_vars

\* the stop signal is set, and the request of the running cycle was handled
\* and its response written
C11_Witness ==
    /\ stop_event
    /\ pc = "flush"
    /\ Handled
    /\ sent = Encode(outcome.resp)

\* -------------------------------------------------------------------- C12
\* C12: once the stop signal is set, serve eventually leaves its loop, also
\* when it waits for a client and none connects.
C12_StopTerminates ==
    stop_event ~> (pc \in {"stopped", "crashed"})

\* -------------------------------------------------------------------- C13
\* C13: a client that received a response with status "error" ends with an
\* exit code that is not zero, and its output carries the server's error text.
C13_ErrorExitsNonZero ==
    \A c \in Clients :
        (cli[c].stage = "done" /\ cli[c].met = "error") =>
            /\ cli[c].code # 0
            /\ cli[c].out # <<>>

\* -------------------------------------------------------------------- C14
\* the three situations of the client: the pipe does not exist, the server
\* answered with an error response, the response is not valid JSON
Situations == {"not_found", "error", "garbage"}

\* C14: two runs of runlights-cli that ended in different ones of the three
\* situations ended with different exit codes.
C14_ThreeExitCodes ==
    \A c, d \in Clients :
        (/\ cli[c].stage = "done" /\ cli[d].stage = "done"
         /\ cli[c].prog = "cli" /\ cli[d].prog = "cli"
         /\ cli[c].met \in Situations /\ cli[d].met \in Situations
         /\ cli[c].met # cli[d].met)
        => cli[c].code # cli[d].code

\* -------------------------------------------------------------------- C15
\* C15: a client whose attempt to open the pipe failed, because no instance
\* existed or none was free, made the attempt when serve was not running.
C15_NoOpenFailureWhileAlive ==
    \A c \in Clients :
        (cli[c].stage = "done" /\ cli[c].met \in {"not_found", "busy"}) => ~cli[c].alive

\* -------------------------------------------------------------------- C16
\* the request in hand repeats the request handled before it, and the file
\* had the same content both times
Repeated ==
    /\ Handled
    /\ prev.seen # Unread
    /\ raw = prev.raw
    /\ seen = prev.seen

\* the controllers whose send_batch raised
FailedPositions(o) == { o.calls[i].pos : i \in { j \in DOMAIN o.calls : ~o.calls[j].ok } }

C17_FreshConfig ==
    Handled =>
        /\ seen = file
        /\ \E failing \in SUBSET InventoryPositions(file) :
              outcome = HandleRaw(raw, file, failing)

\* the request before found no configuration file, this one is applied with
\* the file that exists now; or the one before was applied and this one finds
\* the file unparsable
C17_Witness ==
    /\ Handled
    /\ \/ /\ prev.seen = Missing
          /\ prev.outcome.resp.status = "error"
          /\ seen[1] = "toml"
          /\ outcome.resp.status = "ok"
          /\ outcome.calls # <<>>
       \/ /\ prev.seen # Unread
          /\ prev.outcome.resp.status = "ok"
          /\ seen = Garbled
          /\ outcome.resp = ErrorResp(load_config(Garbled).error)

\* -------------------------------------------------------------------- C18
\* the active or the base brightness of the mode is not a number
BrightnessNotNumeric ==
    \/ ~CanInt(Get(TheMode(SeenCfg), "abrightness", I(0)))
    \/ ~CanInt(Get(TheMode(SeenCfg), "bbrightness", I(0)))

\* C18: when the planner is called for a mode whose active or base brightness
\* is not a number, the request is answered with the error "Invalid
\* brightness values", no exception leaves the handler and no controller is
\* called.
C18_InvalidBrightness ==
    (Handled /\ ConsoleRequest /\ Bound /\ BrightnessNotNumeric) =>
        /\ ~outcome.raised
        /\ outcome.resp = ErrorResp(<<"Invalid brightness values">>)
        /\ outcome.calls = <<>>

\* the planner was called for such a mode, with a controller it could update
C18_Witness ==
    /\ Handled /\ ConsoleRequest /\ Bound /\ BrightnessNotNumeric
    /\ EligiblePositions # {}
    /\ sent = Encode(ErrorResp(<<"Invalid brightness values">>))

\* -------------------------------------------------------------------- C19
\* the segment ids of a batch, in order
BatchSegments(call) == [n \in 1..Len(call.seg_updates) |-> call.seg_updates[n].segment]
\* the segment ids a controller declares, in order
DeclaredSegments(ctrl) == [n \in 1..Len(ctrl.segments) |-> ctrl.segments[n].id]

\* C19: send_batch is called only for controllers the allow-list admits and
\* that declare segments, at most once for each and in inventory order, with
\* one update for each declared segment; when the answer is ok it was called
\* for every such controller.
C19_EligibleBatches ==
    Planned =>
        /\ CalledPositions \subseteq EligiblePositions
        /\ \A k, l \in 1..Len(outcome.calls) :
              k < l => outcome.calls[k].pos < outcome.calls[l].pos
        /\ \A k \in 1..Len(outcome.calls) :
              LET call == outcome.calls[k]
              IN  /\ call.cid = Inventory[call.pos].id
                  /\ BatchSegments(call) = DeclaredSegments(Inventory[call.pos])
        /\ outcome.resp.status = "ok" => CalledPositions = EligiblePositions

\* a plan over an inventory with a controller outside the allow-list, one
\* without segments and one that is updated
C19_Witness ==
    /\ Planned
    /\ outcome.resp.status = "ok"
    /\ CalledPositions # {}
    /\ \E i \in 1..Len(Inventory) : ~Allowed(Inventory[i].id)
    /\ \E i \in 1..Len(Inventory) : Allowed(Inventory[i].id) /\ Inventory[i].segments = <<>>

\* -------------------------------------------------------------------- C20
\* the errors of the checks that come before the configuration is loaded
EarlyErrors == { <<"invalid_json">>, <<"unsupported_type">>, <<"missing_name">> }

\* the request was answered by one of the five short-circuits
ShortCircuited ==
    /\ Handled
    /\ outcome.resp.status = "error"
    /\ \/ outcome.resp.error \in EarlyErrors
       \/ ~SeenLoads /\ outcome.resp.error = load_config(seen).error
       \/ outcome.resp.error = <<"console '", ReqName, "' not found">>

\* C20: a request answered by a short-circuit made no send_batch call, and
\* for the first three load_config was not called.
C20_ShortCircuitNoCalls ==
    ShortCircuited =>
        /\ outcome.calls = <<>>
        /\ outcome.resp.error \in EarlyErrors => ~outcome.loaded

\* a request without a name was answered while the file held a configuration
\* with controllers to update
C20_Witness ==
    /\ ShortCircuited
    /\ outcome.resp.error = <<"missing_name">>
    /\ file[1] = "toml"
    /\ InventoryPositions(file) # {}
    /\ sent = Encode(outcome.resp)

\* -------------------------------------------------------------------- C21
\* C21: serve is left only by the break on the stop signal or by the error
\* _create_pipe raises; a pipe error on a connection is logged, the instance
\* is disconnected and closed, and serve is back at the top of the loop.
C21_LoopEndsOnlyOnStopOrCreate ==
    [][ /\ (pc' = "stopped" /\ pc # "stopped") => (pc = "loop" /\ stop_event)
        /\ (pc' = "crashed" /\ pc # "crashed") => (pc \in {"loop", "creating"} /\ exc' = "pipe")
        /\ (pc = "close" /\ exc = "pipe" /\ pc' # "close") =>
              (pc' = "loop" /\ handles' = 0 /\ ReleaseCalls' \in
                  { <<"disconnect", "close">>, <<"write", "disconnect", "close">>,
                    <<"write", "flush", "disconnect", "close">> }) ]_vars

\* -------------------------------------------------------------------- C22
\* the resolver returned a binding for the request
Resolved == Handled /\ ConsoleRequest /\ SeenLoads /\ outcome.binding # None

\* C22: when the resolver returned a binding, the request is not answered
\* with "esde game-select mode not found": the mode the planner takes exists,
\* it is the first mode "game-select" of an application "esde", and the
\* binding is the one its table has for the name.
C22_PlannerFindsResolverMode ==
    Resolved =>
        LET found == EsdeModes(Get(SeenCfg, "application", <<>>))
        IN  /\ outcome.resp # ErrorResp(<<"esde game-select mode not found">>)
            /\ found # <<>>
            /\ ModePairs(SeenCfg) # {}
            /\ found[1] = TheMode(SeenCfg)
            /\ outcome.binding = Get(Get(found[1], "bindings", <<>>), ReqName, None)

\* a binding was resolved and applied in a configuration where another
\* application has a mode "game-select" first and the application "esde" has
\* another mode before it and a second one after it
C22_Witness ==
    /\ Resolved
    /\ seen = <<"toml", 4>>
    /\ outcome.resp.status = "ok"
    /\ outcome.calls # <<>>
    /\ Len(EsdeModes(Get(SeenCfg, "application", <<>>))) > 1

\* -------------------------------------------------------------------- C23
\* the WriteFile calls made on the current pipe instance
Writes == Len(SelectSeq(events, LAMBDA e : e = "write"))

\* C23: when serve is done with a connection it has written at most one
\* response on it: exactly one if the request read was not empty and no pipe
\* error occurred, none if the read was empty; and what it wrote is the
\* response to the request read on that instance.
C23_OneResponsePerConnection ==
    pc = "close" =>
        /\ Writes <= 1
        /\ (raw # <<>> /\ exc # "pipe") => Writes = 1
        /\ raw = <<>> => Writes = 0
        /\ Writes = 1 => (Handled /\ sent = Encode(outcome.resp))

\* -------------------------------------------------------------------- C24
\* serve holds no pipe instance: it is at the top of the loop, in
\* _create_pipe, or it has left the loop
BetweenInstances == pc \in {"loop", "creating", "stopped", "crashed"}

\* the last two calls on the instance were DisconnectNamedPipe and CloseHandle
Released ==
    /\ Len(events) >= 2
    /\ events[Len(events) - 1] = "disconnect"
    /\ events[Len(events)] = "close"

\* C24: serve holds at most one pipe instance; whenever it is about to create
\* one or has left the loop it holds none, and the instance it created before
\* was disconnected and then closed; while it works on a connection it holds
\* exactly the one instance, which is not closed yet.
C24_HandleDiscipline ==
    /\ handles \in {0, 1}
    /\ BetweenInstances =>
          /\ handles = 0
          /\ events # <<>> => Released
    /\ ~BetweenInstances =>
          /\ handles = 1
          /\ ~InList("close", events)

\* an exception left serve after the instance was disconnected and closed
C24_Witness ==
    /\ pc = "crashed"
    /\ exc = "uncaught"
    /\ handles = 0
    /\ Released

====
